---- MODULE Spec2Model ----
(***************************************************************************)
(* navigator-auth: the tenant API-token backend (backends/token.py) and   *)
(* the ADFS authorization-code backend (backends/adfs.py).                 *)
(*                                                                         *)
(* A text (a Python str) is a sequence of symbols.  A symbol is a word, a  *)
(* blank, a colon, or a whole compact JWT; the parsing code only looks for *)
(* blanks and colons, so this is the granularity it can observe.           *)
(***************************************************************************)
EXTENDS Integers, Sequences, FiniteSets, TLC

VARIABLES now, db, issued, redirect_uri, call, held, lookup

vars == <<now, db, issued, redirect_uri, call, held, lookup>>

-----------------------------------------------------------------------------
(* Bounds of the model *)

\* the clock runs over 0..MaxTime
MaxTime == 1
\* a credential has at most MaxParts colon-separated parts
MaxParts == 3
\* the lookups that run concurrently
MaxTasks == 2

-----------------------------------------------------------------------------
(* Symbols and texts *)

W(w) == [k |-> "ch", c |-> w]
SP == W(" ")
COLON == W(":")
NoneSym == [k |-> "None"]
\* Python's None, where a text is expected
PyNone == <<NoneSym>>
\* Python's False, where a record is expected
PyFalse == [py |-> "False"]

\* if x: for a text or None
Truthy(t) == t # PyNone /\ t # <<>>

RECURSIVE LStrip(_)
LStrip(s) == IF s # <<>> /\ Head(s) = SP THEN LStrip(Tail(s)) ELSE s

RECURSIVE RStrip(_)
RStrip(s) == IF s # <<>> /\ s[Len(s)] = SP THEN RStrip(SubSeq(s, 1, Len(s) - 1)) ELSE s

\* str.strip()
Strip(s) == RStrip(LStrip(s))

\* position of the first sep in s, 0 when there is none
IndexOf(s, sep) ==
    IF \E i \in 1..Len(s) : s[i] = sep
    THEN CHOOSE i \in 1..Len(s) : s[i] = sep /\ \A j \in 1..(i - 1) : s[j] # sep
    ELSE 0

\* str.split(sep, maxsplit); maxsplit = -1 splits at every sep
RECURSIVE split(_, _, _)
split(s, sep, maxsplit) ==
    LET i == IndexOf(s, sep) IN
    IF i = 0 \/ maxsplit = 0
    THEN <<s>>
    ELSE <<SubSeq(s, 1, i - 1)>> \o split(SubSeq(s, i + 1, Len(s)), sep, maxsplit - 1)

-----------------------------------------------------------------------------
(* Configuration (navigator_auth.conf) *)

\* self.scheme of the backend
Scheme == <<W("Bearer")>>
AUTH_JWT_ALGORITHM == "HS256"
AUTH_TOKEN_SECRET == "token-secret"
AUTH_TOKEN_ISSUER == "urn:Navigator"
\* leeway=30 of both jwt.decode calls of token.py
Leeway == 30

-----------------------------------------------------------------------------
(* JWTs.  A compact JWT is one symbol: the algorithm of its header, the    *)
(* key that signed it and its claims.                                      *)

JWT(alg, key, claims) == [k |-> "jwt", alg |-> alg, key |-> key, claims |-> claims]

Raise(exc) == [ok |-> FALSE, exc |-> exc]
Return(v) == [ok |-> TRUE, val |-> v]

\* jwt.decode(token, AUTH_TOKEN_SECRET, algorithms=[AUTH_JWT_ALGORITHM], leeway=30)
jwt_decode(token, key, algorithms, leeway, t) ==
    IF Len(token) # 1 \/ token[1].k # "jwt" THEN Raise("DecodeError")
    ELSE LET j == token[1] IN
         IF j.alg \notin algorithms THEN Raise("InvalidAlgorithmError")
         ELSE IF j.key # key THEN Raise("InvalidSignatureError")
         ELSE IF "exp" \in DOMAIN j.claims /\ j.claims.exp <= t - leeway
              THEN Raise("ExpiredSignatureError")
         ELSE Return(j.claims)

-----------------------------------------------------------------------------
(* The key-lookup store: auth.partner_keys, keyed by (name, partner) *)

Acme == <<W("acme")>>
Beta == <<W("beta")>>
ProgramSets == {{Acme}, {Acme, Beta}}
Grants == {"read"}

Row(e, r, ps) ==
    [name |-> "k1", partner |-> "p1", grants |-> Grants, programs |-> ps,
     enabled |-> e, revoked |-> r]

\* what the driver can do with one query: answer, report an error in the
\* result pair, or raise
QueryFaults == {"none", "error", "raise"}

\* the SELECT without its "revoked = FALSE"
Select_IgnoringRevoked(d, name, partner, tenant) ==
    {[name |-> r.name, partner |-> r.partner, grants |-> r.grants, programs |-> r.programs] :
        r \in {x \in d : /\ x.name = name
                         /\ x.partner = partner
                         /\ x.enabled
                         /\ tenant # PyNone
                         /\ tenant \in x.programs}}

\* the SELECT of check_token_info: the columns of the rows that satisfy its WHERE
Select(d, name, partner, tenant) ==
    {[name |-> r.name, partner |-> r.partner, grants |-> r.grants, programs |-> r.programs] :
        r \in {x \in d : /\ x.name = name
                         /\ x.partner = partner
                         /\ x.enabled
                         /\ ~x.revoked
                         /\ tenant # PyNone
                         /\ tenant \in x.programs}}

\* check_token_info handing the driver's error to the caller instead of False
check_token_info_ReturningError(d, tenant, payload, q) ==
    IF "name" \notin DOMAIN payload \/ "partner" \notin DOMAIN payload
    THEN PyFalse
    ELSE LET rows == Select(d, payload.name, payload.partner, tenant)
         IN IF q = "raise" THEN PyFalse
            ELSE IF q = "error" THEN [error |-> "query failed"]
            ELSE IF rows = {} THEN PyFalse
            ELSE CHOOSE r \in rows : TRUE

\* TokenAuth.check_token_info: the row, or False
check_token_info(d, tenant, payload, q) ==
    IF "name" \notin DOMAIN payload \/ "partner" \notin DOMAIN payload
    THEN PyFalse
    ELSE LET rows == Select(d, payload.name, payload.partner, tenant)
             error == (q = "error")
         IN IF q = "raise" THEN PyFalse
            ELSE IF error \/ rows = {} THEN PyFalse
            ELSE CHOOSE r \in rows : TRUE

-----------------------------------------------------------------------------
(* TokenAuth.get_payload *)

\* None when the header is malformed or of another scheme (the AuthException is
\* caught inside), else [tenant, token]
get_payload(headers) ==
    IF "Authorization" \notin DOMAIN headers
    THEN [tenant |-> PyNone, token |-> PyNone]
    ELSE LET parts == split(Strip(headers.Authorization), SP, 1) IN
         IF Len(parts) # 2 THEN NoneSym
         ELSE LET scheme == parts[1]
                  id == parts[2]
                  cred == split(id, COLON, -1)
              IN IF scheme # Scheme THEN NoneSym
                 ELSE IF Len(cred) = 2
                      THEN [tenant |-> cred[1], token |-> cred[2]]
                      ELSE [tenant |-> PyNone, token |-> id]

-----------------------------------------------------------------------------
(* Requests presented to the token backend *)

Good == [name |-> "k1", partner |-> "p1"]
Signed(claims) == JWT(AUTH_JWT_ALGORITHM, AUTH_TOKEN_SECRET, claims)

\* the JWTs a client may present: valid, expired (at time 0, and from time 1 on),
\* signed with another key, of another algorithm, lacking name or partner,
\* naming a key the store does not hold
InputJwts ==
    { Signed(Good),
      Signed([name |-> "k1", partner |-> "p1", exp |-> 0 - Leeway]),
      Signed([name |-> "k1", partner |-> "p1", exp |-> 1 - Leeway]),
      JWT(AUTH_JWT_ALGORITHM, "another-secret", Good),
      JWT("none", AUTH_TOKEN_SECRET, Good),
      Signed([partner |-> "p1"]),
      Signed([name |-> "k1"]),
      Signed([name |-> "k9", partner |-> "p1"]) }

\* the last part of a credential: a JWT, something that is no JWT, or nothing
TokenParts == {<<j>> : j \in InputJwts} \cup {<<W("junk")>>, <<>>}
\* the first part of a credential of several parts
TenantParts == {Acme, Beta, <<>>}

\* the credentials of exactly n colon-separated parts: a tenant part, n - 2
\* further parts, a token part
RECURSIVE CredentialsOf(_)
CredentialsOf(n) ==
    IF n = 1 THEN TokenParts
    ELSE IF n = 2 THEN {t \o <<COLON>> \o c : t \in TenantParts, c \in TokenParts}
    ELSE {SubSeq(c, 1, IndexOf(c, COLON)) \o Beta \o <<COLON>>
              \o SubSeq(c, IndexOf(c, COLON) + 1, Len(c)) : c \in CredentialsOf(n - 1)}

Credentials == UNION {CredentialsOf(n) : n \in 1..MaxParts}

\* header values that are not "<scheme> <credential>" with the configured scheme,
\* or are so only after strip()
OddValues ==
    { <<>>, <<SP>>, Scheme, Scheme \o <<SP>>,
      <<W("Basic"), SP>> \o Acme \o <<COLON, Signed(Good)>>,
      <<SP>> \o Scheme \o <<SP>> \o Acme \o <<COLON, Signed(Good), SP>>,
      Scheme \o <<SP, SP>> \o Acme \o <<COLON, Signed(Good)>> }

HeaderValues == {Scheme \o <<SP>> \o c : c \in Credentials} \cup OddValues

WithAuthorization(v) == [Host |-> "api", Authorization |-> v]
NoAuthorization == [Host |-> "api"]

\* what an earlier interceptor of the chain may have left on the request
EarlierUser == [id |-> "u0", is_authenticated |-> TRUE]
EarlierSession == [grants |-> {"admin"}, partner |-> "p0", tenant |-> Beta]
Earlier ==
    { [authenticated |-> FALSE, user |-> NoneSym, session |-> NoneSym],
      [authenticated |-> TRUE, user |-> EarlierUser, session |-> EarlierSession],
      [authenticated |-> TRUE, user |-> NoneSym, session |-> EarlierSession] }

\* the request as the handler receives it
Request(headers, e) ==
    [headers |-> headers, authenticated |-> e.authenticated, user |-> e.user,
     session |-> e.session, session_key |-> NoneSym]

-----------------------------------------------------------------------------
(* Outcomes of a handler *)

\* the downstream handler ran and its response is returned
Handled == [kind |-> "handler"]
\* an aiohttp HTTP error: the rejection response; cause is the exception the
\* raising except clause had caught ("" when raised directly)
HTTPError(exc, reason, cause) ==
    [kind |-> "http", exc |-> exc, reason |-> reason, cause |-> cause]
\* an exception that is no HTTP response leaves the handler; arg is the text
\* formatted into the message
Raised(exc, status, message, arg) ==
    [kind |-> "raise", exc |-> exc, status |-> status, message |-> message, arg |-> arg]
\* a value returned to the caller
Returned(v) == [kind |-> "return", val |-> v]

\* the session collaborator (navigator_session.get_session, session.decode)
SessionFaults == {"user", "no-user", "raise"}

Some(v) == [v |-> v]

-----------------------------------------------------------------------------
(* TokenAuth.auth_middleware *)

\* the except clauses of the middleware, in their order
middleware_except(exc) ==
    IF exc = "ExpiredSignatureError"
    THEN HTTPError("HTTPForbidden", "TokenAuth: token expired", exc)
    ELSE IF exc = "InvalidSignatureError"
    THEN HTTPError("HTTPForbidden", "TokenAuth: Invalid or missing Credentials", exc)
    ELSE IF exc \in {"DecodeError", "InvalidAlgorithmError", "InvalidTokenError"}
    THEN HTTPError("HTTPForbidden", "TokenAuth: Invalid authorization token", exc)
    ELSE HTTPError("HTTPClientError", "Error on TokenAuth Middleware", exc)

\* has the sequence s the element x
Has(s, x) == \E i \in 1..Len(s) : s[i] = x

\* the record of one call: the request, the steps executed in their order, the
\* outcome, the request as it is afterwards, what get_payload returned, what
\* check_token_info returned, and what the collaborators did where they were
\* asked (q: the store, s: the session or user collaborator)
MwCall(request, trace, outcome, after, parsed, result, q, sess) ==
    [op |-> "auth_middleware", request |-> request, trace |-> trace,
     outcome |-> outcome, after |-> after, parsed |-> parsed, result |-> result,
     q |-> IF Has(trace, "check_token_info") THEN q ELSE "-",
     s |-> IF Has(trace, "get_session") THEN sess ELSE "-"]

\* lines 196-209: the request is marked authenticated
middleware_success(request, r0, gp, payload, result, q, sess) ==
    LET r1 == [r0 EXCEPT !.session_key = Some(payload.name)]
        steps == <<"get_payload", "jwt.decode", "check_token_info", "get_session">>
    IN
    IF sess = "raise"
    THEN MwCall(request, steps, middleware_except("Exception"), r1, gp, result, q, sess)
    ELSE IF {"grants", "partner"} \ DOMAIN result # {}
    THEN MwCall(request, steps, middleware_except("KeyError"), r1, gp, result, q, sess)
    ELSE LET session == [grants |-> result.grants, partner |-> result.partner,
                         tenant |-> gp.tenant]
             user == IF sess = "user"
                     THEN [id |-> payload.name, is_authenticated |-> TRUE]
                     ELSE r1.user
             r2 == [r1 EXCEPT !.session = session, !.user = user, !.authenticated = TRUE]
         IN MwCall(request, Append(steps, "handler"), Handled, r2, gp, result, q, sess)

middleware(request, d, t, q, sess) ==
    LET r0 == [request EXCEPT !.user = NoneSym] IN
    IF request.authenticated = TRUE
    THEN MwCall(request, <<"handler">>, Handled, r0, NoneSym, NoneSym, q, sess)
    ELSE LET gp == get_payload(request.headers) IN
    IF gp = NoneSym
    THEN MwCall(request, <<"get_payload">>,
                Raised("TypeError", 0, "cannot unpack non-iterable NoneType object", <<>>),
                r0, gp, NoneSym, q, sess)
    ELSE IF ~Truthy(gp.token)
    THEN MwCall(request, <<"get_payload", "handler">>, Handled, r0, gp, NoneSym, q, sess)
    ELSE LET dec == jwt_decode(gp.token, AUTH_TOKEN_SECRET, {AUTH_JWT_ALGORITHM}, Leeway, t) IN
    IF ~dec.ok
    THEN MwCall(request, <<"get_payload", "jwt.decode">>, middleware_except(dec.exc),
                r0, gp, NoneSym, q, sess)
    ELSE LET result == check_token_info(d, gp.tenant, dec.val, q) IN
    IF result = PyFalse
    THEN MwCall(request, <<"get_payload", "jwt.decode", "check_token_info">>,
                middleware_except("HTTPForbidden: API Key Not Authorized"), r0, gp, result,
                q, sess)
    ELSE middleware_success(request, r0, gp, dec.val, result, q, sess)

-----------------------------------------------------------------------------
(* TokenAuth.authenticate *)

\* BaseAuthBackend.create_jwt: a fresh JWT, signed with the shared secret, that
\* embeds the identity
create_jwt(data) == <<Signed(data)>>

\* what may fail after the lookup: create_user, create_jwt, remember
PostFaults == {"none", "create_user", "create_jwt", "remember"}

AuCall(request, trace, outcome, parsed, result, q, post) ==
    [op |-> "authenticate", request |-> request, trace |-> trace,
     outcome |-> outcome, parsed |-> parsed, result |-> result,
     q |-> IF Has(trace, "check_token_info") THEN q ELSE "-",
     s |-> IF Has(trace, "create_user") THEN post ELSE "-"]

\* authenticate putting the key's name where the partner belongs
authenticate_success_NameAsPartner(tenant, data, post) ==
    IF {"name", "partner", "grants", "programs"} \ DOMAIN data # {}
    THEN Raised("InvalidAuth", 401, "Missing attributes for Partner Token: ", <<>>)
    ELSE
    LET user == [name |-> data.name, partner |-> data.name,
                 issuer |-> AUTH_TOKEN_ISSUER, programs |-> data.programs,
                 grants |-> data.grants, tenant |-> tenant, id |-> data.name,
                 user_id |-> data.name]
        token == create_jwt(user)
    IN IF post # "none" THEN Returned(PyFalse)
       ELSE Returned([token |-> tenant \o <<COLON>> \o token, user |-> user])

\* lines 99-143: the identity, the new token and the session
authenticate_success(tenant, data, post) ==
    IF {"name", "partner", "grants", "programs"} \ DOMAIN data # {}
    THEN Raised("InvalidAuth", 401, "Missing attributes for Partner Token: ", <<>>)
    ELSE
    LET id == data.name
        username == data.partner
        user == [name |-> data.name, partner |-> username,
                 issuer |-> AUTH_TOKEN_ISSUER, programs |-> data.programs,
                 grants |-> data.grants, tenant |-> tenant, id |-> data.name,
                 user_id |-> id]
        token == create_jwt(user)
    IN IF post # "none" THEN Returned(PyFalse)
       ELSE Returned([token |-> tenant \o <<COLON>> \o token, user |-> user])

authenticate(request, d, t, q, post) ==
    LET gp == get_payload(request.headers) IN
    IF gp = NoneSym
    THEN AuCall(request, <<"get_payload">>,
                Raised("AuthException", 400, "cannot unpack non-iterable NoneType object", <<>>),
                gp, NoneSym, q, post)
    ELSE IF ~Truthy(gp.token)
    THEN AuCall(request, <<"get_payload">>,
                Raised("InvalidAuth", 401, "Invalid Credentials", <<>>), gp, NoneSym, q, post)
    ELSE LET dec == jwt_decode(gp.token, AUTH_TOKEN_SECRET, {AUTH_JWT_ALGORITHM}, Leeway, t) IN
    IF ~dec.ok
    THEN AuCall(request, <<"get_payload", "jwt.decode">>,
                Raised(dec.exc, 0, "", <<>>), gp, NoneSym, q, post)
    ELSE LET data == check_token_info(d, gp.tenant, dec.val, q) IN
    IF data = PyFalse
    THEN AuCall(request, <<"get_payload", "jwt.decode", "check_token_info">>,
                Raised("InvalidAuth", 401, "Invalid Session: ", gp.token), gp, data, q, post)
    ELSE LET out == authenticate_success(gp.tenant, data, post) IN
         AuCall(request,
                IF out.kind = "raise"
                THEN <<"get_payload", "jwt.decode", "check_token_info">>
                ELSE <<"get_payload", "jwt.decode", "check_token_info", "create_user">>,
                out, gp, data, q, post)

-----------------------------------------------------------------------------
(* The ADFS backend: configuration and collaborators *)

ADFS_CLIENT_ID == "client-1"
ADFS_DEFAULT_RESOURCE == "urn:resource"
ADFS_ISSUER == "https://adfs/adfs/services/trust"
ADFS_SCOPES == "openid"
ADFS_ALGORITHMS == {"RS256", "RS384", "RS512"}
\* the redirect_uri written into the token request (line 182)
TokenRequestRedirectUri == [domain |-> "https://api.dev.navigator.mobileinsight.com",
                            path |-> "/auth/adfs/callback"]

\* the domains requests arrive on
Domains == {"https://a.example", "https://b.example"}

\* self.redirect_uri as configure leaves it: "{domain}" + callback
RedirectTemplate == [domain |-> "{domain}", path |-> "/auth/adfs/callback"]

\* str.format(domain=...): fills the placeholder if it is still there
format(uri, domain) ==
    IF uri.domain = "{domain}" THEN [uri EXCEPT !.domain = domain] ELSE uri

\* an access token: a JWT whose header also names the signing key
JWTk(alg, kid, key, claims) ==
    [k |-> "jwt", alg |-> alg, kid |-> kid, key |-> key, claims |-> claims]

\* the provider's published keys, by key id
ProviderKeys == [kid1 |-> "adfs-key-1"]

GoodClaims == [upn |-> "alice@example.com", aud |-> ADFS_DEFAULT_RESOURCE, iss |-> ADFS_ISSUER]

\* the access tokens a token response may carry
AccessTokens ==
    { <<JWTk("RS256", "kid1", "adfs-key-1", GoodClaims)>>,
      <<JWTk("RS256", "kid1", "adfs-key-1", [GoodClaims EXCEPT !.upn = "bob@example.com"])>>,
      <<JWTk("RS256", "kid1", "adfs-key-1",
             [upn |-> "alice@example.com", aud |-> ADFS_DEFAULT_RESOURCE,
              iss |-> ADFS_ISSUER, exp |-> 1])>>,
      <<JWTk("RS256", "kid1", "rogue-key", GoodClaims)>>,
      <<JWTk("RS256", "kid9", "adfs-key-1", GoodClaims)>>,
      <<JWTk("HS256", "kid1", "adfs-key-1", GoodClaims)>>,
      <<JWTk("RS256", "kid1", "adfs-key-1", [GoodClaims EXCEPT !.aud = "urn:other"])>>,
      <<JWTk("RS256", "kid1", "adfs-key-1", [GoodClaims EXCEPT !.iss = "https://evil"])>>,
      <<JWTk("RS256", "kid1", "adfs-key-1",
             [aud |-> ADFS_DEFAULT_RESOURCE, iss |-> ADFS_ISSUER])>>,
      <<W("junk")>> }

\* jwksutils.get_public_key: the key named by the token's header, or a failure
\* (discovery unreachable, token unreadable, key id unknown)
get_public_key(access_token, jwks) ==
    IF jwks = "unreachable" THEN Raise("KeyDiscoveryError")
    ELSE IF Len(access_token) # 1 \/ access_token[1].k # "jwt" THEN Raise("DecodeError")
    ELSE IF access_token[1].kid \notin DOMAIN ProviderKeys THEN Raise("KeyDiscoveryError")
    ELSE Return(ProviderKeys[access_token[1].kid])

\* the decoding with verify_signature off
adfs_jwt_decode_Unverified(token, key, algorithms, audience, issuer, t) ==
    IF Len(token) # 1 \/ token[1].k # "jwt" THEN Raise("DecodeError")
    ELSE LET j == token[1] IN
         IF "exp" \in DOMAIN j.claims /\ j.claims.exp <= t
         THEN Raise("ExpiredSignatureError")
         ELSE IF "iss" \notin DOMAIN j.claims THEN Raise("MissingRequiredClaimError")
         ELSE IF j.claims.iss # issuer THEN Raise("InvalidIssuerError")
         ELSE IF "aud" \notin DOMAIN j.claims THEN Raise("MissingRequiredClaimError")
         ELSE IF j.claims.aud # audience THEN Raise("InvalidAudienceError")
         ELSE Return(j.claims)

\* jwt.decode(access_token, key=public_key, algorithms=..., audience=..., issuer=...,
\* options=...) of lines 229-238
adfs_jwt_decode(token, key, algorithms, audience, issuer, t) ==
    IF Len(token) # 1 \/ token[1].k # "jwt" THEN Raise("DecodeError")
    ELSE LET j == token[1] IN
         IF j.alg \notin algorithms THEN Raise("InvalidAlgorithmError")
         ELSE IF j.key # key THEN Raise("InvalidSignatureError")
         ELSE IF "exp" \in DOMAIN j.claims /\ j.claims.exp <= t
              THEN Raise("ExpiredSignatureError")
         ELSE IF "iss" \notin DOMAIN j.claims THEN Raise("MissingRequiredClaimError")
         ELSE IF j.claims.iss # issuer THEN Raise("InvalidIssuerError")
         ELSE IF "aud" \notin DOMAIN j.claims THEN Raise("MissingRequiredClaimError")
         ELSE IF j.claims.aud # audience THEN Raise("InvalidAudienceError")
         ELSE Return(j.claims)

\* what the token endpoint may answer; "raise" is a failure of the transport
Exchanges ==
    {[error |-> "invalid_grant", error_description |-> "bad code"]}
    \cup {[access_token |-> a, token_type |-> "Bearer"] : a \in AccessTokens}
    \cup {[token_type |-> "Bearer"], [access_token |-> CHOOSE a \in AccessTokens : TRUE]}
PostResults == {Raise("ClientError")} \cup {Return(x) : x \in Exchanges}

\* what the userinfo endpoint may answer
UserInfos == {Raise("ClientError"),
              Return([upn |-> "alice@example.com", email |-> "alice@example.com"]),
              Return([email |-> "nobody@example.com"])}

\* ExternalAuth.build_user_info: the mapped user data and the user id; the user
\* id claim is mandatory
build_user_info(data, access_token) ==
    IF "upn" \notin DOMAIN data THEN Raise("IdentityIncompleteError")
    ELSE Return([uid |-> data.upn, userdata |-> data, access_token |-> access_token])

\* ExternalAuth.validate_user_info, the session and user-store collaborator
ValidateResults == {Raise("UserNotFound"), Return([token |-> "session-token"]),
                    Return([user |-> "no-token"])}

-----------------------------------------------------------------------------
(* ADFSAuth.auth_callback *)

\* the query of a callback: a code, an error, both, or neither
Queries == {[code |-> "c1", state |-> "s"], [error |-> "access_denied", state |-> "s"],
            [error |-> "access_denied", code |-> "c1"], [state |-> "s"]}

\* the answers of the collaborators to one callback
CallbackEnvs ==
    [post : PostResults, jwks : {"reachable", "unreachable"}, userinfo : UserInfos,
     validate : ValidateResults]

\* the record of one callback: the steps executed in their order, the outcome, the
\* token request sent, the verified claims, the data the identity was built from,
\* the identity, and the collaborators' answers where they were asked
CbCall(domain, query, trace, outcome, env, token_request, claims, data, identity) ==
    [op |-> "auth_callback", domain |-> domain, query |-> query, trace |-> trace,
     outcome |-> outcome, token_request |-> token_request, claims |-> claims,
     data |-> data, identity |-> identity,
     post |-> IF Has(trace, "post") THEN env.post ELSE NoneSym,
     jwks |-> IF Has(trace, "get_public_key") THEN env.jwks ELSE "-",
     userinfo |-> IF Has(trace, "get") THEN env.userinfo ELSE NoneSym,
     validate |-> IF Has(trace, "validate_user_info") THEN env.validate ELSE NoneSym]

Forbidden(reason, cause) == HTTPError("HTTPForbidden", reason, cause)

\* the reasons of the rejections auth_callback raises
ProviderDenied == "ADFS: Unable to Authenticate"
InvalidCallback == "ADFS: Invalid Callback response"
TokenExchangeRejected == "ADFS {error}: {desc}"
UpstreamUnavailable == "Invalid Response from Token Server"

\* self.home_redirect(request, token=token, token_type="Bearer")
home_redirect(token, token_type) ==
    [kind |-> "redirect", token |-> token, token_type |-> token_type]

\* the callback reading the code without looking for an error parameter
callback_code_IgnoringError(query) ==
    IF "code" \notin DOMAIN query
    THEN Raise(Forbidden(InvalidCallback, "KeyError: code"))
    ELSE Return(query.code)

\* lines 155-172: the authorization code of the query, or the rejection
callback_code(query) ==
    IF "error" \in DOMAIN query
    THEN Raise(Forbidden(InvalidCallback, ProviderDenied))
    ELSE IF "code" \notin DOMAIN query
    THEN Raise(Forbidden(InvalidCallback, "KeyError: code"))
    ELSE Return(query.code)

\* lines 189-210: the access token and its type out of the exchange, or the rejection
callback_exchange(post) ==
    IF ~post.ok
    THEN Raise(Forbidden(UpstreamUnavailable, post.exc))
    ELSE LET exchange == post.val IN
         IF "error" \in DOMAIN exchange
         THEN Raise(Forbidden(UpstreamUnavailable, TokenExchangeRejected))
         ELSE IF "access_token" \notin DOMAIN exchange
         THEN Raise(Forbidden(UpstreamUnavailable, "KeyError: access_token"))
         ELSE IF "token_type" \notin DOMAIN exchange
         THEN Raise(Forbidden(UpstreamUnavailable, "KeyError: token_type"))
         ELSE Return([access_token |-> exchange.access_token,
                      token_type |-> exchange.token_type])

\* lines 239-243: any failure of key resolution or verification
callback_token_error(e) == Forbidden("Unable to decode JWT token", e)

\* lines 247-253: the data the identity is built from
callback_userdata(claims, userinfo) ==
    IF userinfo.ok THEN userinfo.val ELSE claims

\* lines 266-273
callback_redirect(data) ==
    home_redirect(IF "token" \in DOMAIN data THEN Some(data.token) ELSE NoneSym, "Bearer")

auth_callback(domain, query, env, t) ==
    LET code == callback_code(query) IN
    IF ~code.ok
    THEN CbCall(domain, query, <<>>, code.exc, env, NoneSym, NoneSym, NoneSym, NoneSym)
    ELSE
    LET query_params == [code |-> code.val, client_id |-> ADFS_CLIENT_ID,
                         grant_type |-> "authorization_code",
                         redirect_uri |-> TokenRequestRedirectUri, scope |-> ADFS_SCOPES]
        ex == callback_exchange(env.post)
    IN
    IF ~ex.ok
    THEN CbCall(domain, query, <<"post">>, ex.exc, env, query_params, NoneSym, NoneSym, NoneSym)
    ELSE
    LET access_token == ex.val.access_token
        public_key == get_public_key(access_token, env.jwks)
    IN
    IF ~public_key.ok
    THEN CbCall(domain, query, <<"post", "get_public_key">>,
                callback_token_error(public_key.exc), env, query_params,
                NoneSym, NoneSym, NoneSym)
    ELSE
    LET verified == adfs_jwt_decode(access_token, public_key.val, ADFS_ALGORITHMS,
                                    ADFS_DEFAULT_RESOURCE, ADFS_ISSUER, t)
        s2 == <<"post", "get_public_key", "jwt.decode">>
    IN
    IF ~verified.ok
    THEN CbCall(domain, query, s2, callback_token_error(verified.exc), env, query_params,
                NoneSym, NoneSym, NoneSym)
    ELSE
    LET claims == verified.val
        data == callback_userdata(claims, env.userinfo)
        built == build_user_info(data, access_token)
        s3 == s2 \o <<"get", "build_user_info">>
    IN
    IF ~built.ok
    THEN CbCall(domain, query, s3, Forbidden("ADFS: Error with User Information", built.exc),
                env, query_params, claims, data, NoneSym)
    ELSE
    LET s4 == Append(s3, "validate_user_info") IN
    IF ~env.validate.ok
    THEN CbCall(domain, query, s4,
                Forbidden("ADFS: Error with User Information", env.validate.exc),
                env, query_params, claims, data, built.val)
    ELSE CbCall(domain, query, Append(s4, "home_redirect"),
                callback_redirect(env.validate.val), env, query_params, claims, data,
                built.val)

-----------------------------------------------------------------------------
(* ADFSAuth.authenticate *)

\* base64.urlsafe_b64encode / urlsafe_b64decode of a text
urlsafe_b64encode(x) == [b64 |-> x]
urlsafe_b64decode(y) == y.b64

\* authenticate encoding self.redirect_uri as it was before line 121 formatted it
adfs_authenticate_StateBeforeFormat(uri, domain) ==
    LET redirect == format(uri, domain)
        state == urlsafe_b64encode(uri)
        query_params == [client_id |-> ADFS_CLIENT_ID, response_type |-> "code",
                         redirect_uri |-> redirect, resource |-> ADFS_DEFAULT_RESOURCE,
                         response_mode |-> "query", state |-> state, scope |-> ADFS_SCOPES]
    IN [op |-> "adfs_authenticate", domain |-> domain, trace |-> <<"redirect">>,
        outcome |-> [kind |-> "redirect", url |-> "authorize_uri", params |-> query_params]]

\* lines 120-143: the redirect to the authorize endpoint
adfs_authenticate(uri, domain) ==
    LET redirect == format(uri, domain)
        state == urlsafe_b64encode(redirect)
        query_params == [client_id |-> ADFS_CLIENT_ID, response_type |-> "code",
                         redirect_uri |-> redirect, resource |-> ADFS_DEFAULT_RESOURCE,
                         response_mode |-> "query", state |-> state, scope |-> ADFS_SCOPES]
    IN [op |-> "adfs_authenticate", domain |-> domain, trace |-> <<"redirect">>,
        outcome |-> [kind |-> "redirect", url |-> "authorize_uri", params |-> query_params]]

-----------------------------------------------------------------------------
(* The connection of check_token_info: async with await pool.acquire() as conn *)

Tasks == 1..MaxTasks

\* pool.acquire(): one more connection is out of the pool
acquire(h) == h + 1

\* the exit of the with block runs however the block is left, but gives the
\* connection back only when the block returned
aexit_OnReturnOnly(h, path) == IF path = "raise" THEN h ELSE h - 1

\* the exit of the with block, on a return and on an exception alike: the
\* connection goes back
aexit(h, path) == h - 1

\* a lookup: where it is, its arguments, what the query did, how the with block
\* was left, and the value returned
Lookup(pc, tenant, payload, q, path, result) ==
    [pc |-> pc, tenant |-> tenant, payload |-> payload, q |-> q, path |-> path,
     result |-> result]
NoLookup == Lookup("idle", PyNone, NoneSym, "-", "-", NoneSym)

\* the payloads and tenants of the concurrent lookups
LookupPayloads == {Good, [partner |-> "p1"], [name |-> "k9", partner |-> "p1"]}
LookupTenants == {Acme, Beta}

-----------------------------------------------------------------------------
(* The token backend as a state machine *)

Idle == [op |-> "idle"]

DbStates == {{Row(e, r, ps)} : e \in BOOLEAN, r \in BOOLEAN, ps \in ProgramSets}

\* the credentials authenticate has returned, each with the row it matched
Issue(c) ==
    IF c.outcome.kind = "return" /\ c.outcome.val # PyFalse
    THEN {[cred |-> c.outcome.val.token, tenant |-> c.parsed.tenant, row |-> c.result]}
    ELSE {}

\* a client presents any header value, or a credential it was issued
Presented == HeaderValues \cup {Scheme \o <<SP>> \o i.cred : i \in issued}
PresentedHeaders == {WithAuthorization(v) : v \in Presented} \cup {NoAuthorization}

Init ==
    /\ now = 0
    /\ db \in DbStates
    /\ issued = {}
    /\ redirect_uri = RedirectTemplate
    /\ call = Idle
    /\ held = 0
    /\ lookup = [t \in Tasks |-> NoLookup]

\* one request through the interceptor
Middleware ==
    /\ call = Idle
    /\ \E h \in PresentedHeaders, e \in Earlier, q \in QueryFaults, sess \in SessionFaults :
          call' = middleware(Request(h, e), db, now, q, sess)
    /\ UNCHANGED <<now, db, issued, redirect_uri, held, lookup>>

\* one call of authenticate
Authenticate ==
    /\ call = Idle
    /\ \E h \in PresentedHeaders, q \in QueryFaults, post \in PostFaults :
          LET c == authenticate(Request(h, [authenticated |-> FALSE, user |-> NoneSym,
                                            session |-> NoneSym]), db, now, q, post)
          IN /\ call' = c
             /\ issued' = issued \cup Issue(c)
    /\ UNCHANGED <<now, db, redirect_uri, held, lookup>>

\* the response leaves; the backend is ready for the next request
Finish ==
    /\ call # Idle
    /\ call' = Idle
    /\ UNCHANGED <<now, db, issued, redirect_uri, held, lookup>>

\* time passes
Tick ==
    /\ call = Idle
    /\ now < MaxTime
    /\ now' = now + 1
    /\ UNCHANGED <<db, issued, redirect_uri, call, held, lookup>>

\* the store is managed from outside: a key is enabled, revoked, re-scoped
AdminUpdate ==
    /\ call = Idle
    /\ db' \in DbStates \ {db}
    /\ UNCHANGED <<now, issued, redirect_uri, call, held, lookup>>

Next == Middleware \/ Authenticate \/ Finish \/ Tick \/ AdminUpdate

Spec == Init /\ [][Next]_vars


-----------------------------------------------------------------------------
(* The ADFS backend as a state machine *)

InitADFS ==
    /\ now = 0
    /\ db = {Row(TRUE, FALSE, {Acme})}
    /\ issued = {}
    /\ redirect_uri = RedirectTemplate
    /\ call = Idle
    /\ held = 0
    /\ lookup = [t \in Tasks |-> NoLookup]

\* one login request
AdfsAuthenticate ==
    /\ call = Idle
    /\ \E domain \in Domains :
          /\ redirect_uri' = format(redirect_uri, domain)
          /\ call' = adfs_authenticate(redirect_uri, domain)
    /\ UNCHANGED <<now, db, issued, held, lookup>>

\* one callback request
AuthCallback ==
    /\ call = Idle
    /\ \E domain \in Domains, query \in Queries, env \in CallbackEnvs :
          /\ redirect_uri' = format(redirect_uri, domain)
          /\ call' = auth_callback(domain, query, env, now)
    /\ UNCHANGED <<now, db, issued, held, lookup>>

NextADFS == AdfsAuthenticate \/ AuthCallback \/ Finish \/ Tick

SpecADFS == InitADFS /\ [][NextADFS]_vars

-----------------------------------------------------------------------------
(* Concurrent key lookups as a state machine: one task per request, which *)
(* gives way to the others where check_token_info awaits                   *)

InitLookup ==
    /\ now = 0
    /\ db \in {{Row(TRUE, FALSE, {Acme})}, {Row(TRUE, TRUE, {Acme, Beta})}}
    /\ issued = {}
    /\ redirect_uri = RedirectTemplate
    /\ call = Idle
    /\ held = 0
    /\ lookup = [t \in Tasks |-> NoLookup]

\* lines 149-153: a payload without name or partner returns False at once
LookupCall(t) ==
    /\ lookup[t].pc = "idle"
    /\ \E tenant \in LookupTenants, payload \in LookupPayloads :
          lookup' = [lookup EXCEPT ![t] =
              IF "name" \notin DOMAIN payload \/ "partner" \notin DOMAIN payload
              THEN Lookup("done", tenant, payload, "-", "-",
                          check_token_info(db, tenant, payload, "none"))
              ELSE Lookup("acquire", tenant, payload, "-", "-", NoneSym)]
    /\ UNCHANGED <<now, db, issued, redirect_uri, call, held>>

\* line 163, await pool.acquire(): the task gets a connection
LookupAcquire(t) ==
    /\ lookup[t].pc = "acquire"
    /\ held' = acquire(held)
    /\ lookup' = [lookup EXCEPT ![t].pc = "query"]
    /\ UNCHANGED <<now, db, issued, redirect_uri, call>>

\* line 163, await pool.acquire() raises: no connection was taken, and the
\* except clause of line 169 returns False
LookupAcquireFails(t) ==
    /\ lookup[t].pc = "acquire"
    /\ lookup' = [lookup EXCEPT ![t].pc = "done", ![t].result = PyFalse]
    /\ UNCHANGED <<now, db, issued, redirect_uri, call, held>>

\* line 164, await conn.queryrow(...): a row, no row, an error in the result
\* pair, or an exception; the with block is left by a return or by the exception
LookupQuery(t) ==
    /\ lookup[t].pc = "query"
    /\ \E q \in QueryFaults :
          lookup' = [lookup EXCEPT ![t].pc = "exit", ![t].q = q,
                                   ![t].path = IF q = "raise" THEN "raise" ELSE "return"]
    /\ UNCHANGED <<now, db, issued, redirect_uri, call, held>>

\* the exit of the with block, then the value of lines 166, 168 or 171
LookupExit(t) ==
    /\ lookup[t].pc = "exit"
    /\ held' = aexit(held, lookup[t].path)
    /\ lookup' = [lookup EXCEPT ![t].pc = "done",
                                ![t].result = check_token_info(db, lookup[t].tenant,
                                                  lookup[t].payload, lookup[t].q)]
    /\ UNCHANGED <<now, db, issued, redirect_uri, call>>

\* the caller has the value; the task ends
LookupReturn(t) ==
    /\ lookup[t].pc = "done"
    /\ lookup' = [lookup EXCEPT ![t] = NoLookup]
    /\ UNCHANGED <<now, db, issued, redirect_uri, call, held>>

NextLookup ==
    \E t \in Tasks :
        \/ LookupCall(t)
        \/ LookupAcquire(t)
        \/ LookupAcquireFails(t)
        \/ LookupQuery(t)
        \/ LookupExit(t)
        \/ LookupReturn(t)

SpecLookup == InitLookup /\ [][NextLookup]_vars

-----------------------------------------------------------------------------
(* Properties of the ADFS callback, under SpecADFS *)

IsCb == call.op = "auth_callback"

\* the access token is one the provider signed for this client, and is current
TokenVerifies(tok, t) ==
    /\ Len(tok) = 1
    /\ tok[1].k = "jwt"
    /\ tok[1].alg \in ADFS_ALGORITHMS
    /\ tok[1].kid \in DOMAIN ProviderKeys
    /\ tok[1].key = ProviderKeys[tok[1].kid]
    /\ ("exp" \in DOMAIN tok[1].claims => tok[1].claims.exp > t)
    /\ "aud" \in DOMAIN tok[1].claims /\ tok[1].claims.aud = ADFS_DEFAULT_RESOURCE
    /\ "iss" \in DOMAIN tok[1].claims /\ tok[1].claims.iss = ADFS_ISSUER

\* the callback got an access token out of the exchange
GotAccessToken == IsCb /\ Has(call.trace, "get_public_key")

\* C1: in auth_callback, build_user_info and validate_user_info run, and an
\* identity exists, only if the key was resolved and the access token passed
\* signature, expiry, audience and issuer verification; when key resolution or
\* verification fails the request is rejected, with no identity and no session call.
C1_IdentityOnlyFromVerifiedClaims ==
    GotAccessToken =>
        LET verified == /\ call.jwks = "reachable"
                        /\ TokenVerifies(call.post.val.access_token, now)
            reached == \/ Has(call.trace, "build_user_info")
                       \/ Has(call.trace, "validate_user_info")
                       \/ call.identity # NoneSym
                       \/ call.outcome.kind = "redirect"
        IN /\ reached => verified
           /\ ~verified => /\ call.outcome.kind = "http"
                            /\ call.outcome.exc = "HTTPForbidden"
                            /\ ~reached

\* a callback built an identity from a verified token
C1_Witness == IsCb /\ call.identity # NoneSym /\ Has(call.trace, "validate_user_info")

\* C2: a callback whose query has an error parameter never calls the token
\* endpoint and ends with the ProviderDenied rejection, not the InvalidCallback one.
C2_ErrorYieldsProviderDenied ==
    (IsCb /\ "error" \in DOMAIN call.query) =>
        /\ ~Has(call.trace, "post")
        /\ call.outcome.kind = "http"
        /\ call.outcome.reason = ProviderDenied
        /\ call.outcome.reason # InvalidCallback

\* C3: a callback whose token response contains error ends with the
\* TokenExchangeRejected rejection, not the UpstreamUnavailable one, and runs
\* neither key resolution, decoding, build_user_info nor validate_user_info.
C3_ExchangeErrorYieldsTokenExchangeRejected ==
    (IsCb /\ Has(call.trace, "post") /\ call.post.ok /\ "error" \in DOMAIN call.post.val) =>
        /\ call.outcome.kind = "http"
        /\ call.outcome.reason = TokenExchangeRejected
        /\ call.outcome.reason # UpstreamUnavailable
        /\ call.trace = <<"post">>
        /\ call.identity = NoneSym

-----------------------------------------------------------------------------
(* Properties of the token backend, under Spec *)

IsMw == call.op = "auth_middleware"
IsAu == call.op = "authenticate"
HasAuthorization == "Authorization" \in DOMAIN call.request.headers
HandlerInvoked == Has(call.trace, "handler")

\* C4: the interceptor invokes the handler only for a request that was already
\* flagged authenticated, or has no Authorization header, or was authenticated
\* by it; a request with an Authorization header that is not authenticated
\* never reaches the handler and ends in an error.
C4_HandlerOnlyWhenAuthenticated ==
    IsMw =>
        /\ HandlerInvoked => \/ call.request.authenticated
                              \/ ~HasAuthorization
                              \/ call.after.authenticated
        /\ (HasAuthorization /\ ~call.after.authenticated) =>
               /\ ~HandlerInvoked
               /\ call.outcome.kind \in {"http", "raise"}

\* the columns check_token_info returns of a row
Columns(r) ==
    [name |-> r.name, partner |-> r.partner, grants |-> r.grants, programs |-> r.programs]

\* the call looked up the (name, partner) of its token and got a row of the
\* store that is enabled, not revoked and has the tenant among its programs
AuthorizedLookup ==
    /\ call.parsed # NoneSym
    /\ Len(call.parsed.token) = 1
    /\ call.parsed.token[1].k = "jwt"
    /\ LET payload == call.parsed.token[1].claims IN
       /\ {"name", "partner"} \subseteq DOMAIN payload
       /\ \E r \in db : /\ r.name = payload.name
                         /\ r.partner = payload.partner
                         /\ r.enabled
                         /\ ~r.revoked
                         /\ call.parsed.tenant \in r.programs
                         /\ call.result = Columns(r)

\* the interceptor marked the request authenticated itself
MarkedAuthenticated == IsMw /\ ~call.request.authenticated /\ call.after.authenticated
\* authenticate returned an identity
ReturnedIdentity == IsAu /\ call.outcome.kind = "return" /\ call.outcome.val # PyFalse

\* C5: a tenant token authenticates, in authenticate and in the interceptor, only
\* through a lookup that returned an enabled, not revoked record of its (name,
\* partner) whose programs contain the tenant.
C5_AuthenticatesOnlyWithAuthorizedRecord ==
    (MarkedAuthenticated \/ ReturnedIdentity) => AuthorizedLookup

\* the interceptor authenticated a request against the store
C5_Witness == MarkedAuthenticated /\ call.result # NoneSym

\* the header is "<scheme> <credential>" and get_payload has parsed it
ParsedCredential ==
    /\ IsAu \/ (IsMw /\ ~call.request.authenticated)
    /\ HasAuthorization
    /\ Len(call.request.headers.Authorization) > 2
    /\ SubSeq(call.request.headers.Authorization, 1, 2) = Scheme \o <<SP>>

\* C6: get_payload splits the credential at its first colon only: the tenant is
\* what precedes it and the token all that follows; without a colon the tenant is
\* undetermined and the token is the credential.
C6_SplitOnFirstColon ==
    ParsedCredential =>
        LET v == call.request.headers.Authorization
            cred == SubSeq(v, 3, Len(v))
            i == IndexOf(cred, COLON)
        IN /\ call.parsed # NoneSym
           /\ IF i = 0
              THEN call.parsed.tenant = PyNone /\ call.parsed.token = cred
              ELSE /\ call.parsed.tenant = SubSeq(cred, 1, i - 1)
                   /\ call.parsed.token = SubSeq(cred, i + 1, Len(cred))

\* the header has no blank-separated credential, or is of another scheme
MalformedHeader ==
    /\ IsMw /\ ~call.request.authenticated
    /\ HasAuthorization
    /\ LET parts == split(Strip(call.request.headers.Authorization), SP, 1)
       IN Len(parts) # 2 \/ parts[1] # Scheme

\* C7: a malformed header or a header of another scheme ends the interceptor in
\* an HTTP rejection, never in an exception that is no HTTP response.
C7_MalformedHeaderRejected ==
    MalformedHeader => call.outcome.kind = "http"

\* C8: a request already flagged authenticated passes through unchanged: the
\* handler runs, the flag, request.user and the session are as they came, and
\* nothing is decoded or looked up.
C8_PassThroughUnchanged ==
    (IsMw /\ call.request.authenticated) =>
        /\ call.trace = <<"handler">>
        /\ call.outcome = Handled
        /\ call.after.authenticated = call.request.authenticated
        /\ call.after.user = call.request.user
        /\ call.after.session = call.request.session

\* the row of an issued credential is in the store as it was at the issue
RecordUnchanged(i) ==
    \E r \in db : r.enabled /\ ~r.revoked /\ Columns(r) = i.row

\* the call presents the issued credential i
Resubmits(i) ==
    /\ IsAu \/ (IsMw /\ ~call.request.authenticated)
    /\ HasAuthorization
    /\ call.request.headers.Authorization = Scheme \o <<SP>> \o i.cred

LookupFailed ==
    /\ IsAu
    /\ Has(call.trace, "check_token_info")
    /\ LET payload == call.parsed.token[1].claims IN
       \/ {"name", "partner"} \ DOMAIN payload # {}
       \/ call.q \in {"error", "raise"}
       \/ ~\E r \in db : /\ r.name = payload.name
                          /\ r.partner = payload.partner
                          /\ r.enabled /\ ~r.revoked
                          /\ call.parsed.tenant \in r.programs

\* C10: in authenticate, no matching record, a query error and a payload
\* without name or partner all give the same failure: InvalidAuth, status 401,
\* "Invalid Session: <token>", which depends on the token alone.
C10_LookupFailuresIndistinguishable ==
    LookupFailed =>
        call.outcome = Raised("InvalidAuth", 401, "Invalid Session: ", call.parsed.token)

\* authenticate failed on a query error
C10_Witness ==
    /\ LookupFailed
    /\ call.q = "error"
    /\ \E r \in db : r.enabled /\ ~r.revoked /\ call.parsed.tenant \in r.programs
                      /\ call.parsed.token = <<Signed([name |-> r.name, partner |-> r.partner])>>

-----------------------------------------------------------------------------
(* Further properties of the ADFS backend, under SpecADFS *)

\* the callback asked the session and user-store collaborator
AskedCollaborator == IsCb /\ Has(call.trace, "validate_user_info")

\* the collaborator answered and its answer holds a token
YieldedToken == call.validate.ok /\ "token" \in DOMAIN call.validate.val

\* C11: a callback that ends in home_redirect carries the token the session and
\* user-store collaborator returned, with token_type=Bearer; when the collaborator
\* fails or yields no token the callback is rejected and no redirect is emitted.
C11_RedirectCarriesCollaboratorToken ==
    IsCb =>
        /\ call.outcome.kind = "redirect" =>
               /\ AskedCollaborator
               /\ YieldedToken
               /\ call.outcome.token = Some(call.validate.val.token)
               /\ call.outcome.token_type = "Bearer"
        /\ (AskedCollaborator /\ ~YieldedToken) =>
               /\ call.outcome.kind = "http"
               /\ call.outcome.exc = "HTTPForbidden"

IsLogin == call.op = "adfs_authenticate"

\* C12: authenticate answers every login request with a redirect to the authorize
\* URL and calls nothing on the network; the query holds client_id, redirect_uri,
\* response_type=code and a state whose URL-safe base64 decoding is the redirect
\* target the backend holds.
C12_AuthorizeUrlWellFormed ==
    IsLogin =>
        /\ call.trace = <<"redirect">>
        /\ call.outcome.kind = "redirect"
        /\ call.outcome.url = "authorize_uri"
        /\ {"client_id", "redirect_uri", "response_type", "state"}
               \subseteq DOMAIN call.outcome.params
        /\ call.outcome.params.client_id = ADFS_CLIENT_ID
        /\ call.outcome.params.response_type = "code"
        /\ call.outcome.params.redirect_uri = redirect_uri
        /\ urlsafe_b64decode(call.outcome.params.state) = redirect_uri

\* a login request was answered with the redirect URI of its own domain
C12_Witness ==
    /\ IsLogin
    /\ call.outcome.kind = "redirect"
    /\ redirect_uri # RedirectTemplate
    /\ redirect_uri.domain = call.domain

\* the steps of a callback that ends in the success redirect, in their order
CallbackSteps ==
    <<"post", "get_public_key", "jwt.decode", "get", "build_user_info",
      "validate_user_info", "home_redirect">>

IsPrefix(s, t) == Len(s) <= Len(t) /\ SubSeq(t, 1, Len(s)) = s

\* the callback query holds a code and no error
CodeReceived == "code" \in DOMAIN call.query /\ "error" \notin DOMAIN call.query
\* the token endpoint answered with an access token and its type
ExchangeSucceeded ==
    /\ call.post.ok
    /\ "error" \notin DOMAIN call.post.val
    /\ {"access_token", "token_type"} \subseteq DOMAIN call.post.val
\* the key was resolved and the access token verified
ClaimsVerified ==
    call.jwks = "reachable" /\ TokenVerifies(call.post.val.access_token, now)

\* C14: the steps of a callback run in the order of the state machine, and a
\* failure is terminal. The redirect is emitted only after a code was received,
\* the exchange succeeded, the claims were verified, the identity was built and
\* the session collaborator succeeded; when a step fails the callback is rejected
\* there and no later step runs. (The userinfo call is not such a step: its
\* failure is not one of the flow.)
C14_OrderedAndFailedTerminal ==
    IsCb =>
        /\ IsPrefix(call.trace, CallbackSteps)
        /\ call.outcome.kind \in {"redirect", "http"}
        /\ call.outcome.kind = "redirect" <=> call.trace = CallbackSteps
        /\ call.outcome.kind = "redirect" =>
               /\ CodeReceived
               /\ ExchangeSucceeded
               /\ ClaimsVerified
               /\ call.identity # NoneSym
               /\ call.validate.ok
        /\ ~CodeReceived => call.trace = <<>>
        /\ (Has(call.trace, "post") /\ ~ExchangeSucceeded) => call.trace = <<"post">>
        /\ (GotAccessToken /\ ~ClaimsVerified) =>
               /\ IsPrefix(call.trace, <<"post", "get_public_key", "jwt.decode">>)
               /\ call.jwks = "unreachable" => call.trace = <<"post", "get_public_key">>
        /\ (Has(call.trace, "build_user_info") /\ call.identity = NoneSym) =>
               call.trace = SubSeq(CallbackSteps, 1, 5)
        /\ (AskedCollaborator /\ ~call.validate.ok) =>
               call.trace = SubSeq(CallbackSteps, 1, 6)

\* a callback went through every step and ended in the success redirect
C14_Witness ==
    /\ IsCb
    /\ call.trace = CallbackSteps
    /\ call.outcome.kind = "redirect"
    /\ call.outcome.token # NoneSym

\* the callback called the userinfo endpoint
AskedUserinfo == IsCb /\ Has(call.trace, "get")

\* C16: a failed userinfo call does not fail the callback and the identity is
\* built from the verified claims; the fields of a successful one are merged
\* with the verified claims, none of which is discarded, before the identity is
\* built.
C16_EnrichmentNonFatalAndMerged ==
    AskedUserinfo =>
        /\ Has(call.trace, "build_user_info")
        /\ ~call.userinfo.ok => call.data = call.claims
        /\ call.userinfo.ok =>
               /\ \A k \in DOMAIN call.userinfo.val :
                      k \in DOMAIN call.data /\ call.data[k] = call.userinfo.val[k]
               /\ \A k \in DOMAIN call.claims : k \in DOMAIN call.data

\* C19: the redirect_uri of every authorize URL, and the state derived from it,
\* are built from the domain of the login request itself, whatever requests the
\* backend served before on other domains.
C19_RedirectUriOfThisRequest ==
    IsLogin =>
        /\ call.outcome.params.redirect_uri = format(RedirectTemplate, call.domain)
        /\ urlsafe_b64decode(call.outcome.params.state)
               = format(RedirectTemplate, call.domain)

\* the callback sent a request to the token endpoint
SentTokenRequest == IsCb /\ Has(call.trace, "post")

\* C20: the token request of the code exchange holds the redirect URI the backend
\* computed for the domain and sends in the authorize redirect, with
\* grant_type=authorization_code, the client id, the code of the callback and
\* the scope.
C20_TokenRequestRedirectUri ==
    SentTokenRequest =>
        /\ call.token_request.redirect_uri = redirect_uri
        /\ call.token_request.redirect_uri.domain \in Domains
        /\ call.token_request.grant_type = "authorization_code"
        /\ call.token_request.client_id = ADFS_CLIENT_ID
        /\ call.token_request.code = call.query.code
        /\ call.token_request.scope = ADFS_SCOPES

-----------------------------------------------------------------------------
(* Further properties of the token backend, under Spec *)

\* C13: authenticate either returns the identity with the composite credential
\* "<tenant>:<newToken>" or fails with an exception; it never returns another
\* value, such as False, as its result.
C13_IdentityOrFailure ==
    IsAu =>
        \/ call.outcome.kind = "raise"
        \/ /\ call.outcome.kind = "return"
           /\ call.outcome.val # PyFalse
           /\ {"token", "user"} \subseteq DOMAIN call.outcome.val
           /\ LET prefix == call.parsed.tenant \o <<COLON>> IN
              /\ Len(call.outcome.val.token) > Len(prefix)
              /\ SubSeq(call.outcome.val.token, 1, Len(prefix)) = prefix

\* C15: whenever the interceptor marks a request authenticated, request.user is
\* an identity flagged is_authenticated and the session holds the record's
\* grants and partner and the tenant.
C15_AuthenticatedHasIdentity ==
    MarkedAuthenticated =>
        /\ call.after.user # NoneSym
        /\ call.after.user.is_authenticated
        /\ call.after.session = [grants |-> call.result.grants,
                                 partner |-> call.result.partner,
                                 tenant |-> call.parsed.tenant]

\* the key lookup of the interceptor found no authorized record for a token
\* that verifies
LookupDenied ==
    /\ IsMw
    /\ Has(call.trace, "check_token_info")
    /\ call.result = PyFalse

\* C18: when the lookup of the interceptor finds no authorized record for a
\* validly signed token, the request ends in the HTTPForbidden
\* "API Key Not Authorized", as an expired or badly signed token ends in
\* HTTPForbidden, and not in another, generic error.
C18_NotAuthorizedIsForbidden ==
    LookupDenied =>
        /\ call.outcome.kind = "http"
        /\ call.outcome.exc = "HTTPForbidden"
        /\ call.outcome.reason = "API Key Not Authorized"
        /\ ~HandlerInvoked

-----------------------------------------------------------------------------
(* Properties of the key lookup's connection, under SpecLookup *)

\* the lookups that are inside the with block
InsideWith == {t \in Tasks : lookup[t].pc \in {"query", "exit"}}

\* C17: check_token_info gives back the connection it acquired however it ends:
\* with any interleaving of lookups, the connections held are exactly those of
\* the lookups inside the with block, so a lookup that has returned (a row,
\* False for no row, a query error or an exception) holds none.
C17_ConnectionReleasedOnEveryPath ==
    /\ held = Cardinality(InsideWith)
    /\ (\A t \in Tasks : lookup[t].pc \in {"idle", "acquire", "done"}) => held = 0

\* a lookup whose query raised has returned False while another holds its connection
C17_Witness ==
    \E t, u \in Tasks :
        /\ lookup[t].pc = "done" /\ lookup[t].path = "raise" /\ lookup[t].result = PyFalse
        /\ lookup[u].pc = "query"
        /\ held = 1

====
